---- MODULE Spec2Model ----
(***************************************************************************)
(* Adaptive routing and tiered caching: the confidence table               *)
(* (MatchingMatrix), the dispatcher (ModelRouter) and the tiered store     *)
(* (KnowledgeRepository).                                                  *)
(*                                                                         *)
(* Names.  The source uses Chinese keys; the model uses these ASCII names: *)
(*   domains  "TCM" = zhong-yi, "WesternMed" = xi-yi, "Pharmacology",      *)
(*            "Nutrition", "General" = tong-yong-yi-xue                    *)
(*   intents  "DiagnosticConsult" = zhen-duan-zi-xun,                      *)
(*            "MedicationQuery" = yao-wu-cha-xun, "TreatmentPlan",         *)
(*            "HealthAdvice"                                               *)
(*   models   "ZhongJing" = zhong-jing-mo-xing, "TCMChat",                 *)
(*            "GeneralModel" = tong-yong-yi-xue-mo-xing                    *)
(*   urgency  "High" = gao, "Medium" = zhong, "Low" = di                   *)
(*                                                                         *)
(* Numbers.  Confidences and scores are decimals in [0,1].  A confidence   *)
(* c is held as the integer c * 10000 (ConfScale is 1.0), a score s as     *)
(* the integer s * 1000000; every product the code forms on the values     *)
(* drawn here is exact at these scales (binary floating-point rounding is  *)
(* not modelled).                                                          *)
(***************************************************************************)
EXTENDS Integers, Sequences, FiniteSets, TLC

\* ------------------------------------------------------------------------
\* Bounds of the model
\* ------------------------------------------------------------------------
MaxRequests == 1

MaxHistory == 2

MaxThreads == 2

MaxFeedbackHistory == 2

MaxRatings == 10

\* ------------------------------------------------------------------------
\* MatchingMatrix: the confidence table
\* ------------------------------------------------------------------------
ConfScale == 10000

ModelOrder == <<"ZhongJing", "TCMChat", "GeneralModel">>

Models == {ModelOrder[k] : k \in 1..Len(ModelOrder)}

Row(zj, tc, gm) ==
    [m \in Models |-> CASE m = "ZhongJing" -> zj
                        [] m = "TCMChat" -> tc
                        [] OTHER -> gm]

IntentRows(diag, med, plan, advice) ==
    [i \in {"DiagnosticConsult", "MedicationQuery", "TreatmentPlan", "HealthAdvice"} |->
        CASE i = "DiagnosticConsult" -> diag
          [] i = "MedicationQuery" -> med
          [] i = "TreatmentPlan" -> plan
          [] OTHER -> advice]

default_matrix ==
    [d \in {"TCM", "WesternMed", "Pharmacology", "Nutrition", "General"} |->
        CASE d = "TCM" ->
               IntentRows(Row(9500, 8500, 7000), Row(8000, 9200, 6500),
                          Row(9000, 8200, 6000), Row(8800, 8500, 7500))
          [] d = "WesternMed" ->
               IntentRows(Row(7000, 6500, 9000), Row(6000, 7000, 8800),
                          Row(6500, 6000, 9200), Row(7500, 7200, 8500))
          [] d = "Pharmacology" ->
               IntentRows(Row(7500, 8000, 8500), Row(8200, 9000, 8800),
                          Row(7000, 8500, 8000), Row(7800, 8200, 8000))
          [] d = "Nutrition" ->
               IntentRows(Row(8000, 7500, 8200), Row(7000, 7200, 7500),
                          Row(8500, 8000, 7800), Row(9000, 8500, 8800))
          [] OTHER ->
               IntentRows(Row(8000, 7800, 8500), Row(7500, 8000, 8200),
                          Row(7800, 7500, 8500), Row(8200, 8000, 8500))]

\* A matrix_file may replace the default configuration.  The configurations
\* drawn here are the default one and the default one with the row
\* (Pharmacology, DiagnosticConsult) replaced by one of ConfiguredRows.
ConfiguredRows ==
    { Row(6000, 6500, 6900), Row(5000, 5500, 6500), Row(6900, 6000, 5000),
      Row(6900, 6900, 5800), Row(7000, 6000, 5000) }

WithRow(mx, d, i, row) == [mx EXCEPT ![d][i] = row]

Configurations ==
    {default_matrix} \cup
    { WithRow(default_matrix, "Pharmacology", "DiagnosticConsult", r) : r \in ConfiguredRows }


\* get_best_model / get_collaborative_models: an absent domain is read as
\* "General", an absent intent as "DiagnosticConsult".
\* Mutant of ResolveDomain: an absent domain is read as "TCM".
ResolveDomainFirst(mx, d) == IF d \in DOMAIN mx THEN d ELSE "TCM"

ResolveDomain(mx, d) == IF d \in DOMAIN mx THEN d ELSE "General"

ResolveIntent(mx, d, i) == IF i \in DOMAIN mx[d] THEN i ELSE "DiagnosticConsult"

ResolvedRow(mx, d, i) ==
    LET rd == ResolveDomain(mx, d) IN mx[rd][ResolveIntent(mx, rd, i)]

\* models.copy(); models[GeneralModel] *= 1.2, capped at 1.0
BoostFactorTenths == 12

\* Mutant of Boosted: the boosted value is not capped.
BoostedUncapped(row, urgency) ==
    IF urgency = "High" /\ "GeneralModel" \in DOMAIN row
    THEN [row EXCEPT !["GeneralModel"] = (row["GeneralModel"] * BoostFactorTenths) \div 10]
    ELSE row

Boosted(row, urgency) ==
    IF urgency = "High" /\ "GeneralModel" \in DOMAIN row
    THEN LET b == (row["GeneralModel"] * BoostFactorTenths) \div 10
         IN [row EXCEPT !["GeneralModel"] = IF b > ConfScale THEN ConfScale ELSE b]
    ELSE row

\* max(models.items(), key=conf): the first item, in the dict's insertion
\* order, that no later or earlier item exceeds.
RECURSIVE MaxFrom(_, _, _)
MaxFrom(row, k, bestSoFar) ==
    IF k > Len(ModelOrder) THEN bestSoFar
    ELSE MaxFrom(row, k + 1,
                 IF row[ModelOrder[k]] > row[bestSoFar] THEN ModelOrder[k] ELSE bestSoFar)

\* Mutant of BestOf: among equal maxima the last one in insertion order wins.
BestOfLast(row) ==
    LET k == CHOOSE k \in 1..Len(ModelOrder) :
                /\ \A j \in 1..Len(ModelOrder) : row[ModelOrder[j]] <= row[ModelOrder[k]]
                /\ \A j \in (k + 1)..Len(ModelOrder) : row[ModelOrder[j]] < row[ModelOrder[k]]
    IN <<ModelOrder[k], row[ModelOrder[k]]>>

BestOf(row) == LET m == MaxFrom(row, 2, ModelOrder[1]) IN <<m, row[m]>>

GetBestModel(mx, d, i, urgency) == BestOf(Boosted(ResolvedRow(mx, d, i), urgency))

\* Mutant of RecordSelection: the newest record replaces the one before it.
RecordSelectionOverwrites(h, rec) ==
    IF h = <<>> THEN <<rec>> ELSE SubSeq(h, 1, Len(h) - 1) \o <<rec>>

\* _record_selection: self.history.append({...})
RecordSelection(h, rec) == Append(h, rec)

SelectionRecord(mx, d, i, m, c, urgency) ==
    LET rd == ResolveDomain(mx, d)
    IN [action |-> "selection", domain |-> rd, intent_type |-> ResolveIntent(mx, rd, i),
        model |-> m, confidence |-> c, urgency |-> urgency]

\* qualified_models.sort(key=conf, reverse=True): a stable sort, so equal
\* confidences keep the dict's insertion order.
RECURSIVE InsertDesc(_, _, _)
InsertDesc(sorted, m, row) ==
    IF sorted = <<>> THEN <<m>>
    ELSE IF row[Head(sorted)] >= row[m]
         THEN <<Head(sorted)>> \o InsertDesc(Tail(sorted), m, row)
         ELSE <<m>> \o sorted

RECURSIVE SortDesc(_, _)
SortDesc(ms, row) ==
    IF ms = <<>> THEN <<>>
    ELSE InsertDesc(SortDesc(SubSeq(ms, 1, Len(ms) - 1), row), ms[Len(ms)], row)

\* Mutant of Qualified: the comparison with the threshold is reversed.
QualifiedBelow(row, threshold) ==
    SelectSeq(ModelOrder, LAMBDA m : row[m] <= threshold)

Qualified(row, threshold) ==
    SelectSeq(ModelOrder, LAMBDA m : row[m] >= threshold)

\* Mutant of Truncate: the last n entries are kept.
TruncateTail(s, n) ==
    SubSeq(s, (IF Len(s) < n THEN 0 ELSE Len(s) - n) + 1, Len(s))

Truncate(s, n) == SubSeq(s, 1, IF Len(s) < n THEN Len(s) ELSE n)

GetCollaborativeModels(mx, d, i, threshold, max_models) ==
    LET row == ResolvedRow(mx, d, i)
    IN Truncate(SortDesc(Qualified(row, threshold), row), max_models)

DefaultThreshold == 8000

DefaultMaxModels == 2

RECURSIVE CollaborativeRecords(_, _, _, _)
CollaborativeRecords(mx, d, i, ms) ==
    IF ms = <<>> THEN <<>>
    ELSE <<SelectionRecord(mx, d, i, Head(ms), ResolvedRow(mx, d, i)[Head(ms)], "Collaborative")>>
         \o CollaborativeRecords(mx, d, i, Tail(ms))

SeqToSet(s) == {s[k] : k \in 1..Len(s)}

\* ------------------------------------------------------------------------
\* ModelRouter: the dispatcher
\* ------------------------------------------------------------------------
DirectThreshold == 7000

\* The words of an intent name; "Medication" in intent is a substring test.
IntentWords(i) ==
    CASE i = "DiagnosticConsult" -> <<"Diagnostic", "Consult">>
      [] i = "MedicationQuery" -> <<"Medication", "Query">>
      [] i = "MedicationAdvice" -> <<"Medication", "Advice">>
      [] i = "TreatmentPlan" -> <<"Treatment", "Plan">>
      [] i = "HealthAdvice" -> <<"Health", "Advice">>
      [] OTHER -> <<i>>

ContainsWord(i, w) == \E k \in 1..Len(IntentWords(i)) : IntentWords(i)[k] = w

\* Responses: the text an adapter returned, a merged text, or a fixed string.
NoResponse == <<>>

Text(m) == <<m>>

WithSupplement(primary, extra) == <<primary, "Supplement", extra>>

Apology == <<"ApologyRetryOrRephrase">>

ApologyNoModel == <<"ApologyRetry">>

\* Mutant of MergeResults: the default rule takes the last result.
MergeResultsDefaultLast(results, d, i) ==
    LET has(m) == m \in SeqToSet(results)
    IN IF d = "TCM" /\ has("ZhongJing")
       THEN IF i = "MedicationQuery" /\ has("TCMChat")
            THEN WithSupplement("ZhongJing", "TCMChat")
            ELSE Text("ZhongJing")
       ELSE IF d = "WesternMed" /\ has("GeneralModel")
            THEN Text("GeneralModel")
            ELSE IF ContainsWord(i, "Medication") /\ has("TCMChat")
                 THEN Text("TCMChat")
                 ELSE Text(results[Len(results)])

\* _merge_results(results, intent_data); results is the dict of successes in
\* insertion order.
MergeResults(results, d, i) ==
    LET has(m) == m \in SeqToSet(results)
    IN IF d = "TCM" /\ has("ZhongJing")
       THEN IF i = "MedicationQuery" /\ has("TCMChat")
            THEN WithSupplement("ZhongJing", "TCMChat")
            ELSE Text("ZhongJing")
       ELSE IF d = "WesternMed" /\ has("GeneralModel")
            THEN Text("GeneralModel")
            ELSE IF ContainsWord(i, "Medication") /\ has("TCMChat")
                 THEN Text("TCMChat")
                 ELSE Text(results[1])

\* Mutant of AvailableModels: the failed adapter is not excluded.
AvailableModelsAll(failed_model) == ModelOrder

\* _fallback_inference: the registered adapters other than the failed one,
\* in registration order.
AvailableModels(failed_model) == SelectSeq(ModelOrder, LAMBDA m : m # failed_model)

Outcomes == {"ok", "fail"}

\* An exception leaving route or _collaborative_inference.
Raised == <<"Raised">>

\* Mutant of FallbackResult: the backup adapter's exception is not caught.
FallbackResultUncaught(backup_model, outcome) ==
    IF outcome = "ok" THEN Text(backup_model) ELSE Raised

\* try: return infer(...)  except Exception: return the apology (fallback).
FallbackResult(backup_model, outcome) ==
    IF outcome = "ok" THEN Text(backup_model) ELSE Apology

\* Mutant of CollectInto: a failed task discards what was collected before it.
CollectIntoDropOnFailure(res, m, taskState) ==
    IF taskState = "succeeded" THEN Append(res, m) ELSE <<>>

\* try: results[model_name] = future.result()  except Exception: log only.
CollectInto(res, m, taskState) ==
    IF taskState = "succeeded" THEN Append(res, m) ELSE res


\* Requests drawn by the model: a domain and an intent absent from the table
\* ("Dermatology", "MedicationAdvice") are among them.
RequestDomains == {"TCM", "WesternMed", "Pharmacology", "General", "Dermatology"}

RequestIntents == {"DiagnosticConsult", "MedicationQuery", "HealthAdvice", "MedicationAdvice"}

Urgencies == {"High", "Medium"}

NoRequest == [domain |-> "none", intent_type |-> "none", urgency |-> "none", entry |-> "none"]

NoBest == <<"none", 0>>

ZeroStats == [m \in Models |-> [call_count |-> 0, success_count |-> 0, failure_count |-> 0]]

VARIABLES
    matrix,             \* MatchingMatrix.matrix
    history,            \* MatchingMatrix.history
    model_call_count,   \* MatchingMatrix.model_call_count
    stats,              \* BaseModel.call_count, success_count, failure_count per adapter
    pc,                 \* position of the request being served
    req,                \* intent_data of the request, and the method it entered by
    best,               \* (best_model_name, confidence) of route
    path,               \* "direct" or "collaborative"
    submitted,          \* collaborative_models: the models a task was submitted for
    tasks,              \* state of each model's future
    collected,          \* futures the as_completed loop has taken
    results,            \* the results dict, as its keys in insertion order
    invoked,            \* the adapters whose infer this request called, in call order
    response,           \* the value returned to the caller
    stats0,             \* stats when the request entered
    nreq,               \* requests entered so far
    inferring           \* per thread: its position in an adapter's infer and its locals

VARIABLES
    items,          \* table knowledge_items: id -> row
    keywords,       \* table keywords: set of <<keyword, knowledge_id>>
    user_feedback,  \* table user_feedback: knowledge_id -> its (user_id, score) rows, oldest first
    issued,         \* ids _generate_id has given out (it gives none twice)
    now,            \* datetime.now(), in days
    lastOp          \* the last call on the repository and what it returned

VARIABLES
    tableCall,          \* the last call on the MatchingMatrix and what it returned
    updating,           \* per thread: its position in update_confidence and its locals
    feedback_history,   \* FeedbackOptimizer.feedback_history
    model_performance,  \* FeedbackOptimizer.model_performance
    processed           \* the last call on the FeedbackOptimizer and what it returned

repoVars == <<items, keywords, user_feedback, issued, now, lastOp>>

tableVars == <<tableCall, updating>>

optimizerVars == <<feedback_history, model_performance, processed>>

routerVars ==
    <<matrix, history, model_call_count, stats, pc, req, best, path, submitted,
      tasks, collected, results, invoked, response, stats0, nreq, inferring>>

\* Mutant of Infer: the call counter is shared by all adapters.
InferCountsAll(st, m, outcome) ==
    [x \in Models |->
        [call_count |-> st[x].call_count + 1,
         success_count |-> IF x = m /\ outcome = "ok" THEN st[x].success_count + 1
                           ELSE st[x].success_count,
         failure_count |-> IF x = m /\ outcome # "ok" THEN st[x].failure_count + 1
                           ELSE st[x].failure_count]]

\* BaseModel.infer: call_count first, then success_count or failure_count.
Infer(st, m, outcome) ==
    [st EXCEPT ![m].call_count = @ + 1,
               ![m].success_count = IF outcome = "ok" THEN @ + 1 ELSE @,
               ![m].failure_count = IF outcome = "ok" THEN @ ELSE @ + 1]

NotInferring == [pc |-> "idle", model |-> "none", outcome |-> "none", loaded |-> 0]

InitRouter ==
    /\ matrix \in Configurations
    /\ history = <<>>
    /\ model_call_count = [m \in Models |-> 0]
    /\ stats = ZeroStats
    /\ pc = "idle"
    /\ req = NoRequest
    /\ best = NoBest
    /\ path = "none"
    /\ submitted = <<>>
    /\ tasks = [m \in Models |-> "none"]
    /\ collected = {}
    /\ results = <<>>
    /\ invoked = <<>>
    /\ response = NoResponse
    /\ stats0 = ZeroStats
    /\ nreq = 0
    /\ inferring = [t \in 1..MaxThreads |-> NotInferring]

Enter(d, i, u, entry) ==
    /\ pc \in {"idle", "done"}
    /\ nreq < MaxRequests
    /\ nreq' = nreq + 1
    /\ req' = [domain |-> d, intent_type |-> i, urgency |-> u, entry |-> entry]
    /\ submitted' = <<>>
    /\ tasks' = [m \in Models |-> "none"]
    /\ collected' = {}
    /\ results' = <<>>
    /\ invoked' = <<>>
    /\ response' = NoResponse
    /\ stats0' = stats

\* Mutant of PathFor: a confidence of exactly the threshold is not direct.
PathForInclusive(confidence) ==
    IF confidence <= DirectThreshold THEN "collaborative" ELSE "direct"

\* route: if confidence < 0.7 the collaborative mode, else the best model.
PathFor(confidence) ==
    IF confidence < DirectThreshold THEN "collaborative" ELSE "direct"

\* ModelRouter.route up to the threshold check.
Route(d, i, u) ==
    /\ UNCHANGED <<repoVars, tableVars, optimizerVars>>
    /\ Enter(d, i, u, "route")
    /\ LET b == GetBestModel(matrix, d, i, u)
       IN /\ best' = b
          /\ history' = RecordSelection(history, SelectionRecord(matrix, d, i, b[1], b[2], u))
          /\ model_call_count' = [model_call_count EXCEPT ![b[1]] = @ + 1]
          /\ path' = PathFor(b[2])
          /\ pc' = IF PathFor(b[2]) = "collaborative" THEN "collab" ELSE "direct"
    /\ UNCHANGED <<matrix, stats, inferring>>

\* ModelRouter._collaborative_inference called by itself.
CallCollaborative(d, i) ==
    /\ UNCHANGED <<repoVars, tableVars, optimizerVars>>
    /\ Enter(d, i, "Low", "collaborative")
    /\ best' = NoBest
    /\ pc' = "collab"
    /\ path' = "collaborative"
    /\ UNCHANGED <<matrix, history, model_call_count, stats, inferring>>

\* route: self.models[best_model_name].infer(...) and its except clause.
DirectInfer(outcome) ==
    /\ UNCHANGED <<repoVars, tableVars, optimizerVars>>
    /\ pc = "direct"
    /\ stats' = Infer(stats, best[1], outcome)
    /\ invoked' = Append(invoked, best[1])
    /\ IF outcome = "ok"
       THEN pc' = "done" /\ response' = Text(best[1])
       ELSE pc' = "fallback" /\ response' = response
    /\ UNCHANGED <<matrix, history, model_call_count, req, best, path, submitted,
                   tasks, collected, results, stats0, nreq, inferring>>

\* ModelRouter._fallback_inference.
FallbackInfer(outcome) ==
    /\ UNCHANGED <<repoVars, tableVars, optimizerVars>>
    /\ pc = "fallback"
    /\ LET available_models == AvailableModels(best[1])
       IN IF available_models = <<>>
          THEN /\ response' = ApologyNoModel
               /\ UNCHANGED <<stats, invoked>>
          ELSE LET backup_model == available_models[1]
               IN /\ stats' = Infer(stats, backup_model, outcome)
                  /\ invoked' = Append(invoked, backup_model)
                  /\ response' = FallbackResult(backup_model, outcome)
    /\ pc' = "done"
    /\ UNCHANGED <<matrix, history, model_call_count, req, best, path, submitted,
                   tasks, collected, results, stats0, nreq, inferring>>

\* _collaborative_inference: get_collaborative_models and the submit loop.
CollabSubmit ==
    /\ UNCHANGED <<repoVars, tableVars, optimizerVars>>
    /\ pc = "collab"
    /\ LET ms == GetCollaborativeModels(matrix, req.domain, req.intent_type,
                                        DefaultThreshold, DefaultMaxModels)
       IN /\ submitted' = ms
          /\ history' = history \o CollaborativeRecords(matrix, req.domain, req.intent_type, ms)
          /\ model_call_count' =
                [m \in Models |-> model_call_count[m] + IF m \in SeqToSet(ms) THEN 1 ELSE 0]
          /\ tasks' = [m \in Models |-> IF m \in SeqToSet(ms) THEN "running" ELSE "none"]
    /\ pc' = "waiting"
    /\ UNCHANGED <<matrix, stats, req, best, path, collected, results, invoked,
                   response, stats0, nreq, inferring>>

\* A pool worker runs infer for model m to its end.
TaskComplete(m, outcome) ==
    /\ UNCHANGED <<repoVars, tableVars, optimizerVars>>
    /\ pc = "waiting"
    /\ tasks[m] = "running"
    /\ tasks' = [tasks EXCEPT ![m] = IF outcome = "ok" THEN "succeeded" ELSE "failed"]
    /\ stats' = Infer(stats, m, outcome)
    /\ invoked' = Append(invoked, m)
    /\ UNCHANGED <<matrix, history, model_call_count, pc, req, best, path, submitted,
                   collected, results, response, stats0, nreq, inferring>>

\* One turn of the as_completed loop: future.result() of a finished future.
Collect(m) ==
    /\ UNCHANGED <<repoVars, tableVars, optimizerVars>>
    /\ pc = "waiting"
    /\ tasks[m] \in {"succeeded", "failed"}
    /\ m \notin collected
    /\ collected' = collected \cup {m}
    /\ results' = CollectInto(results, m, tasks[m])
    /\ UNCHANGED <<matrix, history, model_call_count, stats, pc, req, best, path,
                   submitted, tasks, invoked, response, stats0, nreq, inferring>>

\* After the loop: the apology when results is empty, else _merge_results.
CollabRespond ==
    /\ UNCHANGED <<repoVars, tableVars, optimizerVars>>
    /\ pc = "waiting"
    /\ collected = SeqToSet(submitted)
    /\ response' = IF results = <<>> THEN Apology
                   ELSE MergeResults(results, req.domain, req.intent_type)
    /\ pc' = "done"
    /\ UNCHANGED <<matrix, history, model_call_count, stats, req, best, path,
                   submitted, tasks, collected, results, invoked, stats0, nreq, inferring>>

NextRouter ==
    \/ \E d \in RequestDomains, i \in RequestIntents, u \in Urgencies : Route(d, i, u)
    \/ \E d \in RequestDomains, i \in RequestIntents : CallCollaborative(d, i)
    \/ \E o \in Outcomes : DirectInfer(o)
    \/ \E o \in Outcomes : FallbackInfer(o)
    \/ CollabSubmit
    \/ \E m \in Models, o \in Outcomes : TaskComplete(m, o)
    \/ \E m \in Models : Collect(m)
    \/ CollabRespond

\* ------------------------------------------------------------------------
\* KnowledgeRepository: the tiered store
\* ------------------------------------------------------------------------
MaxItems == 2

MaxFeedbackRows == 2

MaxNow == 90

CoreThreshold == 850000

ExtendedThreshold == 700000

\* expiry_times, in days (the source holds them in seconds).
CoreDays == 180

ExtendedDays == 90

TemporaryDays == 30

ExpiryDays(tier) ==
    CASE tier = "core" -> CoreDays
      [] tier = "extended" -> ExtendedDays
      [] OTHER -> TemporaryDays

\* Mutant of DetermineTier: an item is core from the extended threshold on.
DetermineTierLenient(score) ==
    IF score >= ExtendedThreshold THEN "core" ELSE "temporary"

\* _determine_tier
DetermineTier(score) ==
    IF score >= CoreThreshold THEN "core"
    ELSE IF score >= ExtendedThreshold THEN "extended"
    ELSE "temporary"

\* update_feedback: feedback_score * 0.7 + score * 0.3 when the stored
\* feedback_score is > 0, else the score itself.
NewFeedbackScore(feedback_score, score) ==
    IF feedback_score > 0 THEN (feedback_score * 7 + score * 3) \div 10 ELSE score

\* Mutant of CombinedScore: the two weights are exchanged.
CombinedScoreSwapped(quality_score, feedback_score) ==
    (quality_score * 4 + feedback_score * 6) \div 10

\* update_feedback: quality_score * 0.6 + new_feedback_score * 0.4
CombinedScore(quality_score, feedback_score) ==
    (quality_score * 6 + feedback_score * 4) \div 10

\* Mutant of NewExpiry: the new lifetime is added to the old expiry.
NewExpiryExtends(expires_at, current_tier, new_tier, t) ==
    IF new_tier # current_tier THEN expires_at + ExpiryDays(new_tier) ELSE expires_at

\* update_feedback: a changed tier sets expires_at anew; an unchanged one
\* leaves the column out of the UPDATE.
NewExpiry(expires_at, current_tier, new_tier, t) ==
    IF new_tier # current_tier THEN t + ExpiryDays(new_tier) ELSE expires_at

\* The names bound in the module knowledge_repository when its functions run:
\* its imports, logger and class.  _simple_tokenize reads the name re.
ModuleGlobals ==
    {"os", "json", "time", "logging", "datetime", "sqlite3", "defaultdict",
     "logger", "KnowledgeRepository"}

\* _simple_tokenize(text): re.sub(...) raises NameError when re is unbound.
\* A text is held as the sequence of tokens the split gives.
SimpleTokenize(text) ==
    IF "re" \in ModuleGlobals
    THEN [ok |-> TRUE, tokens |-> text]
    ELSE [ok |-> FALSE, tokens |-> <<>>]

\* _extract_keywords(query, response): the distinct tokens of both texts.
ExtractKeywords(query, cleaned_response) ==
    LET t == SimpleTokenize(query \o cleaned_response)
    IN [ok |-> t.ok, keywords |-> SeqToSet(t.tokens)]

ItemIds == 1..MaxItems

Queries == {<<"cough", "fever">>}

QualityScores == {500000, 750000, 850000}

FeedbackScores == {0, 500000, 1000000}

Users == {"u1"}

TickDays == {90}

\* The row store's INSERT writes, with the column defaults.
StoredRow(query, d, i, quality_score, t) ==
    [query |-> query, domain |-> d, intent_type |-> i,
     tier |-> DetermineTier(quality_score), quality_score |-> quality_score,
     feedback_score |-> 0, usage_count |-> 0, created_at |-> t, updated_at |-> t,
     expires_at |-> t + ExpiryDays(DetermineTier(quality_score))]

NoFeedback == [id \in ItemIds |-> <<>>]

RECURSIVE RowCount(_, _)
RowCount(fb, ids) ==
    IF ids = {} THEN 0
    ELSE LET id == CHOOSE x \in ids : TRUE IN Len(fb[id]) + RowCount(fb, ids \ {id})

NoOp ==
    [op |-> "none", id |-> 0, ok |-> TRUE, error |-> "none", count |-> 0, returned |-> <<>>,
     raised |-> FALSE]

\* The database file outlives the process (CREATE TABLE IF NOT EXISTS): at
\* construction it holds no rows, or rows of the shape store's INSERT writes.
\* Ids are opaque, so the rows are numbered in the order of their scores.
ExistingDatabases ==
    { f \in UNION { [1..n -> QualityScores] : n \in 0..MaxItems } :
        \A a, b \in DOMAIN f : a < b => f[a] <= f[b] }

InitRepo ==
    /\ now = 0
    /\ \E f \in ExistingDatabases :
          /\ items = [id \in DOMAIN f |->
                         StoredRow(<<"cough">>, "TCM", "DiagnosticConsult", f[id], 0)]
          /\ keywords = { <<"cough", id>> : id \in DOMAIN f }
          /\ issued = DOMAIN f
    /\ user_feedback = NoFeedback
    /\ lastOp = NoOp

\* A connection that is dropped before conn.commit() leaves the table as it
\* was before the statements of the call.
\* Mutant of RollBack: the statements of the failed call stay.
RollBackKeeps(before, after) == after

RollBack(before, after) == before

\* What the storage layer does to a call: nothing, or an sqlite3 error at
\* one of its statements.
StorageFaults == {"none", "OperationalError"}

\* _generate_id: an id no item has had (0 when the model's ids are used up).
FreshId == IF ItemIds \ issued = {} THEN 0 ELSE CHOOSE id \in ItemIds \ issued : TRUE

\* KnowledgeRepository.store: the INSERT of the item, the keyword rows, the
\* commit; an exception is re-raised and the open transaction is not committed.
Store(query, cleaned_response, d, i, quality_score, fault) ==
    /\ UNCHANGED <<routerVars, tableVars, optimizerVars>>
    /\ LET kw == ExtractKeywords(query, cleaned_response)
           inserted == [id \in DOMAIN items \cup {FreshId} |->
                          IF id = FreshId
                          THEN StoredRow(query, d, i, quality_score, now)
                          ELSE items[id]]
       IN IF kw.ok /\ fault = "none"
          THEN \E knowledge_id \in ItemIds \ issued :
                  /\ items' = [id \in DOMAIN items \cup {knowledge_id} |->
                                 IF id = knowledge_id
                                 THEN StoredRow(query, d, i, quality_score, now)
                                 ELSE items[id]]
                  /\ keywords' = keywords \cup { <<k, knowledge_id>> : k \in kw.keywords }
                  /\ issued' = issued \cup {knowledge_id}
                  /\ lastOp' = [NoOp EXCEPT !.op = "store", !.id = knowledge_id]
          ELSE /\ items' = RollBack(items, inserted)
               /\ UNCHANGED <<keywords, issued>>
               /\ lastOp' = [NoOp EXCEPT !.op = "store", !.ok = FALSE, !.raised = TRUE,
                                         !.error = IF fault = "none" THEN "NameError"
                                                   ELSE fault]
    /\ UNCHANGED <<user_feedback, now>>

\* KnowledgeRepository.retrieve: the query is tokenized before the database
\* is opened; any exception is logged and [] returned.
Unexpired(id) == items[id].expires_at > now

TierRank(tier) == CASE tier = "core" -> 2 [] tier = "extended" -> 1 [] OTHER -> 0

\* ORDER BY tier = 'core' DESC, tier = 'extended' DESC, quality_score DESC
Before(a, b) ==
    \/ TierRank(items[a].tier) > TierRank(items[b].tier)
    \/ /\ items[a].tier = items[b].tier
       /\ items[a].quality_score > items[b].quality_score

MatchCount(id, query_keywords) ==
    Cardinality({k \in query_keywords : <<k, id>> \in keywords})

BeforeKeyword(a, b, query_keywords) ==
    \/ MatchCount(a, query_keywords) > MatchCount(b, query_keywords)
    \/ /\ MatchCount(a, query_keywords) = MatchCount(b, query_keywords)
       /\ Before(a, b)

\* The orderings of a set of ids that a query's ORDER BY allows (rows equal
\* under the ORDER BY come in an order the engine chooses).
Orderings(S, before(_, _)) ==
    { s \in [1..Cardinality(S) -> S] :
        /\ \A a, b \in 1..Cardinality(S) : a # b => s[a] # s[b]
        /\ \A a, b \in 1..Cardinality(S) : a < b => ~before(s[b], s[a]) }

Retrieve(query, d, i, limit) ==
    /\ UNCHANGED <<routerVars, tableVars, optimizerVars>>
    /\ LET t == SimpleTokenize(query)
       IN IF ~t.ok
          THEN /\ lastOp' = [NoOp EXCEPT !.op = "retrieve", !.ok = FALSE, !.error = "NameError"]
               /\ UNCHANGED <<items, keywords, user_feedback, issued, now>>
          ELSE LET query_keywords == SeqToSet(t.tokens)
                   exact == { id \in DOMAIN items :
                                /\ items[id].domain = d
                                /\ items[id].intent_type = i
                                /\ Unexpired(id) }
               IN \E e \in Orderings(exact, Before) :
                    LET exact_matches == Truncate(e, limit)
                        others == { id \in DOMAIN items :
                                      /\ id \notin SeqToSet(exact_matches)
                                      /\ Unexpired(id)
                                      /\ MatchCount(id, query_keywords) > 0 }
                    IN \E k \in Orderings(others,
                                          LAMBDA a, b : BeforeKeyword(a, b, query_keywords)) :
                         LET all == IF Len(exact_matches) < limit /\ query_keywords # {}
                                    THEN exact_matches \o Truncate(k, limit - Len(exact_matches))
                                    ELSE exact_matches
                         IN /\ items' = [id \in DOMAIN items |->
                                           IF id \in SeqToSet(all)
                                           THEN [items[id] EXCEPT !.usage_count = @ + 1]
                                           ELSE items[id]]
                            /\ lastOp' = [NoOp EXCEPT !.op = "retrieve", !.returned = all]
                            /\ UNCHANGED <<keywords, user_feedback, issued, now>>

\* KnowledgeRepository.update_feedback.  The feedback row is inserted first;
\* an unknown id returns False before the commit, which drops the row.
\* Mutant of UpdatedRow: the update also counts as a use of the item.
UpdatedRowCountsUse(row, new_feedback_score, new_tier, t) ==
    [row EXCEPT !.feedback_score = new_feedback_score,
                !.tier = new_tier,
                !.updated_at = t,
                !.usage_count = @ + 1,
                !.expires_at = NewExpiry(@, row.tier, new_tier, t)]

\* UPDATE knowledge_items SET feedback_score, tier, updated_at [, expires_at]
UpdatedRow(row, new_feedback_score, new_tier, t) ==
    [row EXCEPT !.feedback_score = new_feedback_score,
                !.tier = new_tier,
                !.updated_at = t,
                !.expires_at = NewExpiry(@, row.tier, new_tier, t)]

UpdateFeedbackCall(knowledge_id, user_id, score, fault) ==
    /\ IF knowledge_id \notin DOMAIN items \/ fault # "none"
       THEN /\ lastOp' = [NoOp EXCEPT !.op = "update_feedback", !.id = knowledge_id,
                                      !.ok = FALSE,
                                      !.error = fault]
            /\ user_feedback' = RollBack(user_feedback,
                   [user_feedback EXCEPT ![knowledge_id] =
                       Append(@, [user_id |-> user_id, score |-> score])])
            /\ UNCHANGED items
       ELSE LET row == items[knowledge_id]
                new_feedback_score == NewFeedbackScore(row.feedback_score, score)
                combined_score == CombinedScore(row.quality_score, new_feedback_score)
                new_tier == DetermineTier(combined_score)
            IN /\ user_feedback' = [user_feedback EXCEPT ![knowledge_id] =
                      Append(@, [user_id |-> user_id, score |-> score])]
               /\ items' = [items EXCEPT ![knowledge_id] =
                      UpdatedRow(row, new_feedback_score, new_tier, now)]
               /\ lastOp' = [NoOp EXCEPT !.op = "update_feedback", !.id = knowledge_id]
    /\ UNCHANGED <<keywords, issued, now>>

UpdateFeedback(knowledge_id, user_id, score, fault) ==
    /\ UNCHANGED <<routerVars, tableVars, optimizerVars>>
    /\ RowCount(user_feedback, ItemIds) < MaxFeedbackRows
    /\ UpdateFeedbackCall(knowledge_id, user_id, score, fault)

\* KnowledgeRepository.cleanup_expired.  The connection leaves SQLite's
\* foreign-key enforcement off, so ON DELETE CASCADE deletes no other row.
\* Mutant of Expired: an item is expired at the instant it expires.
ExpiredInclusive(row, t) == row.expires_at <= t

\* WHERE expires_at < ?
Expired(row, t) == row.expires_at < t

CleanupExpired(fault) ==
    /\ UNCHANGED <<routerVars, tableVars, optimizerVars>>
    /\ LET expired == { id \in DOMAIN items : Expired(items[id], now) }
       IN IF fault = "none"
          THEN /\ items' = [id \in DOMAIN items \ expired |-> items[id]]
               /\ lastOp' = [NoOp EXCEPT !.op = "cleanup_expired",
                                         !.count = Cardinality(expired)]
          ELSE /\ UNCHANGED items
               /\ lastOp' = [NoOp EXCEPT !.op = "cleanup_expired", !.ok = FALSE,
                                         !.error = fault]
    /\ UNCHANGED <<keywords, user_feedback, issued, now>>

\* KnowledgeRepository.get_statistics: the counts of the items table, or {}
\* when a statement raises.
GetStatistics(fault) ==
    /\ UNCHANGED <<routerVars, tableVars, optimizerVars>>
    /\ lastOp' = IF fault = "none"
                 THEN [NoOp EXCEPT !.op = "get_statistics",
                                   !.count = Cardinality(DOMAIN items)]
                 ELSE [NoOp EXCEPT !.op = "get_statistics", !.ok = FALSE, !.error = fault]
    /\ UNCHANGED <<items, keywords, user_feedback, issued, now>>

\* The clock moves on.
Tick(days) ==
    /\ UNCHANGED <<routerVars, tableVars, optimizerVars>>
    /\ now + days <= MaxNow
    /\ now' = now + days
    /\ lastOp' = [NoOp EXCEPT !.op = "tick"]
    /\ UNCHANGED <<items, keywords, user_feedback, issued>>

NextRepo ==
    \/ \E q \in Queries, s \in QualityScores, f \in StorageFaults :
          Store(q, <<"fever">>, "TCM", "DiagnosticConsult", s, f)
    \/ \E q \in Queries : Retrieve(q, "TCM", "DiagnosticConsult", 1)
    \/ \E id \in ItemIds, u \in Users, s \in FeedbackScores, f \in StorageFaults :
          UpdateFeedback(id, u, s, f)
    \/ \E f \in StorageFaults : CleanupExpired(f)
    \/ \E f \in StorageFaults : GetStatistics(f)
    \/ \E d \in TickDays : Tick(d)

\* ------------------------------------------------------------------------
\* MatchingMatrix called directly: one call after another
\* ------------------------------------------------------------------------
TableDomains == {"Pharmacology", "Dermatology"}

TableIntents == {"DiagnosticConsult", "MedicationAdvice"}

Thresholds == {6900, 8000}

MaxModelsArgs == {0, 1, 2}

UpdateDomains == {"General", "Dermatology"}

UpdateModels == {"ZhongJing", "NoSuchModel"}

UpdateScores == {0, 10000}

NoCall ==
    [op |-> "none", domain |-> "none", intent_type |-> "none", urgency |-> "none",
     threshold |-> 0, max_models |-> 0, model |-> "none", feedback_score |-> 0,
     result |-> <<>>, ok |-> FALSE, loaded |-> <<>>]

\* Mutant of AfterBoost: the boost is written into the table's own row.
AfterBoostInPlace(mx, d, i, urgency) ==
    LET rd == ResolveDomain(mx, d)
    IN [mx EXCEPT ![rd][ResolveIntent(mx, rd, i)] = Boosted(ResolvedRow(mx, d, i), urgency)]

\* models = models.copy() before the boost: the table the call leaves behind.
AfterBoost(mx, d, i, urgency) == mx

\* self.model_call_count[model] += 1
Counted(counts, m) == [counts EXCEPT ![m] = @ + 1]

RECURSIVE CountedEach(_, _)
CountedEach(counts, ms) ==
    IF ms = <<>> THEN counts ELSE CountedEach(Counted(counts, Head(ms)), Tail(ms))

BestModelCall(d, i, u) ==
    /\ UNCHANGED <<repoVars, optimizerVars>>
    /\ Len(history) < MaxHistory
    /\ LET b == GetBestModel(matrix, d, i, u)
       IN /\ history' = RecordSelection(history, SelectionRecord(matrix, d, i, b[1], b[2], u))
          /\ model_call_count' = Counted(model_call_count, b[1])
          /\ tableCall' = [NoCall EXCEPT !.op = "get_best_model", !.domain = d,
                                         !.intent_type = i, !.urgency = u,
                                         !.result = b, !.ok = TRUE]
    /\ matrix' = AfterBoost(matrix, d, i, u)
    /\ UNCHANGED <<stats, pc, req, best, path, submitted, tasks, collected, results,
                   invoked, response, stats0, nreq, inferring, updating>>

CollaborativeCall(d, i, threshold, max_models) ==
    /\ UNCHANGED <<repoVars, optimizerVars>>
    /\ LET ms == GetCollaborativeModels(matrix, d, i, threshold, max_models)
           row == ResolvedRow(matrix, d, i)
       IN /\ Len(history) + Len(ms) <= MaxHistory
          /\ history' = history \o CollaborativeRecords(matrix, d, i, ms)
          /\ model_call_count' = CountedEach(model_call_count, ms)
          /\ tableCall' = [NoCall EXCEPT !.op = "get_collaborative_models", !.domain = d,
                                         !.intent_type = i, !.threshold = threshold,
                                         !.max_models = max_models,
                                         !.result = [k \in 1..Len(ms) |-> <<ms[k], row[ms[k]]>>],
                                         !.ok = TRUE]
    /\ UNCHANGED <<matrix, stats, pc, req, best, path, submitted, tasks, collected, results,
                   invoked, response, stats0, nreq, inferring, updating>>

\* update_confidence's three membership tests
KnownTriple(mx, d, i, m) ==
    /\ d \in DOMAIN mx
    /\ i \in DOMAIN mx[d]
    /\ m \in DOMAIN mx[d][i]

\* Mutant of NewConfidence: the weights of the old value and the feedback swapped.
NewConfidenceSwapped(current, feedback_score) == (current + 9 * feedback_score) \div 10

\* Mutant of NewConfidence: the feedback is added at full weight.
NewConfidenceUnweighted(current, feedback_score) == (9 * current) \div 10 + feedback_score

\* current * 0.9 + feedback_score * 0.1
NewConfidence(current, feedback_score) == (9 * current + feedback_score) \div 10

UpdateRecord(d, i, m, old_confidence, new_confidence) ==
    [action |-> "update", domain |-> d, intent_type |-> i, model |-> m,
     old_confidence |-> old_confidence, new_confidence |-> new_confidence]

\* _record_update: self.history.append({...})
RecordUpdate(h, rec) == Append(h, rec)

UpdateConfidence(d, i, m, feedback_score) ==
    /\ UNCHANGED <<repoVars, optimizerVars>>
    /\ IF ~KnownTriple(matrix, d, i, m)
       THEN /\ tableCall' = [NoCall EXCEPT !.op = "update_confidence", !.domain = d,
                                           !.intent_type = i, !.model = m,
                                           !.feedback_score = feedback_score]
            /\ UNCHANGED <<matrix, history>>
       ELSE /\ Len(history) < MaxHistory
            /\ LET current == matrix[d][i][m]
                   written == [matrix EXCEPT ![d][i][m] = NewConfidence(current, feedback_score)]
               IN /\ matrix' = written
                  /\ history' = RecordUpdate(history,
                                    UpdateRecord(d, i, m, current, written[d][i][m]))
            /\ tableCall' = [NoCall EXCEPT !.op = "update_confidence", !.domain = d,
                                           !.intent_type = i, !.model = m,
                                           !.feedback_score = feedback_score, !.ok = TRUE]
    /\ UNCHANGED <<model_call_count, stats, pc, req, best, path, submitted, tasks,
                   collected, results, invoked, response, stats0, nreq, inferring, updating>>

\* The order in which the dict literal default_matrix holds its keys; json
\* writes a dict in its iteration order and reads it back in file order.
DomainOrder == <<"TCM", "WesternMed", "Pharmacology", "Nutrition", "General">>

IntentOrder == <<"DiagnosticConsult", "MedicationQuery", "TreatmentPlan", "HealthAdvice">>

\* The decimal digits of a confidence after the point, trailing zeros
\* dropped but for one: float.__repr__ gives the shortest text that reads
\* back as the same float.
RECURSIVE StripZeros(_)
StripZeros(ds) ==
    IF Len(ds) > 1 /\ ds[Len(ds)] = 0 THEN StripZeros(SubSeq(ds, 1, Len(ds) - 1)) ELSE ds

\* Mutant of FormatFloat: two decimal places are written, rounded.
FormatFloatTwoPlaces(v) ==
    LET r == (v + 50) \div 100
    IN [int |-> r \div 100, frac |-> <<(r \div 10) % 10, r % 10>>]

\* json.dump: a float is written as its repr
FormatFloat(v) ==
    [int |-> v \div ConfScale,
     frac |-> StripZeros(<<(v \div 1000) % 10, (v \div 100) % 10, (v \div 10) % 10, v % 10>>)]

\* json.load: the float a number text denotes
RECURSIVE FracValue(_, _)
FracValue(ds, unit) ==
    IF ds = <<>> \/ unit = 0 THEN 0
    ELSE Head(ds) * unit + FracValue(Tail(ds), unit \div 10)

ParseFloat(text) == text.int * ConfScale + FracValue(text.frac, ConfScale \div 10)

\* json.dump(self.matrix, f, ensure_ascii=False, indent=2): nested objects,
\* each a sequence of <<key, value>> members in the dict's order.
JsonDump(mx) ==
    [a \in 1..Len(DomainOrder) |->
        <<DomainOrder[a],
          [b \in 1..Len(IntentOrder) |->
              <<IntentOrder[b],
                [c \in 1..Len(ModelOrder) |->
                    <<ModelOrder[c],
                      FormatFloat(mx[DomainOrder[a]][IntentOrder[b]][ModelOrder[c]])>>]>>]>>]

Keys(obj) == [k \in 1..Len(obj) |-> obj[k][1]]

Member(obj, key) == obj[CHOOSE k \in 1..Len(obj) : obj[k][1] = key][2]

\* json.load(f): the nested dict, and the order in which it holds its keys
JsonLoad(doc) ==
    << [d \in SeqToSet(Keys(doc)) |->
          [i \in SeqToSet(Keys(Member(doc, d))) |->
              [m \in SeqToSet(Keys(Member(Member(doc, d), i))) |->
                  ParseFloat(Member(Member(Member(doc, d), i), m))]]],
       Keys(doc),
       [a \in 1..Len(doc) |-> Keys(doc[a][2])],
       [a \in 1..Len(doc) |-> [b \in 1..Len(doc[a][2]) |-> Keys(doc[a][2][b][2])]] >>

\* A file path, as <<os.path.dirname(file_path), base name>>.
FilePaths == { <<"config", "matrix.json">>, <<"", "updated_matrix.json">> }

\* os.makedirs(os.path.dirname(file_path), exist_ok=True) raises
\* FileNotFoundError for the empty directory name; save_matrix then prints
\* and returns False, and no file is written.
Saved(file_path) == file_path[1] # ""

\* save_matrix(file_path), then MatchingMatrix(matrix_file=file_path): a
\* second table is constructed from the file, or from default_matrix when
\* the file does not exist.
SaveAndReload(file_path) ==
    /\ UNCHANGED <<repoVars, optimizerVars>>
    /\ tableCall' = [NoCall EXCEPT !.op = "save_matrix",
                                   !.ok = Saved(file_path),
                                   !.loaded = IF Saved(file_path)
                                              THEN JsonLoad(JsonDump(matrix))
                                              ELSE JsonLoad(JsonDump(default_matrix))]
    /\ UNCHANGED <<routerVars, updating>>

NextSnapshot ==
    \/ \E file_path \in FilePaths : SaveAndReload(file_path)
    \/ \E d \in UpdateDomains, i \in TableIntents, m \in UpdateModels, s \in UpdateScores :
          UpdateConfidence(d, i, m, s)

NextTable ==
    \/ \E d \in TableDomains, i \in TableIntents, u \in Urgencies : BestModelCall(d, i, u)
    \/ \E d \in TableDomains, i \in TableIntents, th \in Thresholds, n \in MaxModelsArgs :
          CollaborativeCall(d, i, th, n)
    \/ \E d \in UpdateDomains, i \in TableIntents, m \in UpdateModels, s \in UpdateScores :
          UpdateConfidence(d, i, m, s)

\* ------------------------------------------------------------------------
\* MatchingMatrix.update_confidence called from several threads at once
\* ------------------------------------------------------------------------
Threads == 1..MaxThreads

Idle ==
    [pc |-> "idle", domain |-> "none", intent_type |-> "none", model |-> "none",
     feedback_score |-> 0, current |-> 0, ok |-> FALSE]

ConcurrentModels == {"ZhongJing", "TCMChat"}

\* The membership tests and `current = self.matrix[domain][intent_type][model]`.
UpdateBegin(t, d, i, m, feedback_score) ==
    /\ UNCHANGED <<repoVars, optimizerVars>>
    /\ updating[t].pc = "idle"
    /\ updating' =
          [updating EXCEPT ![t] =
              IF KnownTriple(matrix, d, i, m)
              THEN [pc |-> "read", domain |-> d, intent_type |-> i, model |-> m,
                    feedback_score |-> feedback_score, current |-> matrix[d][i][m],
                    ok |-> FALSE]
              ELSE [pc |-> "done", domain |-> d, intent_type |-> i, model |-> m,
                    feedback_score |-> feedback_score, current |-> 0, ok |-> FALSE]]
    /\ UNCHANGED <<routerVars, tableCall>>

\* self.matrix[domain][intent_type][model] = current * 0.9 + feedback_score * 0.1
UpdateWrite(t) ==
    /\ UNCHANGED <<repoVars, optimizerVars>>
    /\ updating[t].pc = "read"
    /\ LET u == updating[t]
       IN matrix' = [matrix EXCEPT ![u.domain][u.intent_type][u.model] =
                                        NewConfidence(u.current, u.feedback_score)]
    /\ updating' = [updating EXCEPT ![t].pc = "written"]
    /\ UNCHANGED <<history, model_call_count, stats, pc, req, best, path, submitted, tasks,
                   collected, results, invoked, response, stats0, nreq, inferring, tableCall>>

\* self._record_update(..., current, self.matrix[domain][intent_type][model]); return True
UpdateFinish(t) ==
    /\ UNCHANGED <<repoVars, optimizerVars>>
    /\ updating[t].pc = "written"
    /\ LET u == updating[t]
       IN history' = RecordUpdate(history,
                        UpdateRecord(u.domain, u.intent_type, u.model, u.current,
                                     matrix[u.domain][u.intent_type][u.model]))
    /\ updating' = [updating EXCEPT ![t].pc = "done", ![t].ok = TRUE]
    /\ UNCHANGED <<matrix, model_call_count, stats, pc, req, best, path, submitted, tasks,
                   collected, results, invoked, response, stats0, nreq, inferring, tableCall>>

NextUpdates ==
    \/ \E t \in Threads, d \in UpdateDomains, m \in ConcurrentModels, s \in UpdateScores :
          UpdateBegin(t, d, "DiagnosticConsult", m, s)
    \/ \E t \in Threads : UpdateWrite(t)
    \/ \E t \in Threads : UpdateFinish(t)

\* ------------------------------------------------------------------------
\* One adapter's infer running in several threads
\* ------------------------------------------------------------------------
\* infer does not hold a lock, and `self.call_count += 1` is a load, an add
\* and a store: each thread is modelled at the loads and the stores.
InferLoadCallCount(t, m, outcome) ==
    /\ UNCHANGED <<repoVars, tableVars, optimizerVars>>
    /\ inferring[t].pc = "idle"
    /\ inferring' = [inferring EXCEPT ![t] =
          [pc |-> "call_loaded", model |-> m, outcome |-> outcome,
           loaded |-> stats[m].call_count]]
    /\ UNCHANGED <<matrix, history, model_call_count, stats, pc, req, best, path, submitted,
                   tasks, collected, results, invoked, response, stats0, nreq>>

\* self.call_count += 1 (the store), and the body of the try block.
InferStoreCallCount(t) ==
    /\ UNCHANGED <<repoVars, tableVars, optimizerVars>>
    /\ inferring[t].pc = "call_loaded"
    /\ stats' = [stats EXCEPT ![inferring[t].model].call_count = inferring[t].loaded + 1]
    /\ inferring' = [inferring EXCEPT ![t].pc = "running"]
    /\ UNCHANGED <<matrix, history, model_call_count, pc, req, best, path, submitted,
                   tasks, collected, results, invoked, response, stats0, nreq>>

\* self.success_count += 1 or, in the except clause, self.failure_count += 1
\* (the load).
InferLoadResultCount(t) ==
    /\ UNCHANGED <<repoVars, tableVars, optimizerVars>>
    /\ inferring[t].pc = "running"
    /\ inferring' = [inferring EXCEPT
          ![t].pc = "result_loaded",
          ![t].loaded = IF inferring[t].outcome = "ok"
                        THEN stats[inferring[t].model].success_count
                        ELSE stats[inferring[t].model].failure_count]
    /\ UNCHANGED <<matrix, history, model_call_count, stats, pc, req, best, path, submitted,
                   tasks, collected, results, invoked, response, stats0, nreq>>

\* The store of that increment; infer returns or raises.
InferStoreResultCount(t) ==
    /\ UNCHANGED <<repoVars, tableVars, optimizerVars>>
    /\ inferring[t].pc = "result_loaded"
    /\ stats' = IF inferring[t].outcome = "ok"
                THEN [stats EXCEPT ![inferring[t].model].success_count = inferring[t].loaded + 1]
                ELSE [stats EXCEPT ![inferring[t].model].failure_count = inferring[t].loaded + 1]
    /\ inferring' = [inferring EXCEPT ![t].pc = "done"]
    /\ UNCHANGED <<matrix, history, model_call_count, pc, req, best, path, submitted,
                   tasks, collected, results, invoked, response, stats0, nreq>>

NextAdapters ==
    \/ \E t \in Threads, m \in ConcurrentModels, o \in Outcomes : InferLoadCallCount(t, m, o)
    \/ \E t \in Threads : InferStoreCallCount(t)
    \/ \E t \in Threads : InferLoadResultCount(t)
    \/ \E t \in Threads : InferStoreResultCount(t)

\* ------------------------------------------------------------------------
\* FeedbackOptimizer
\* ------------------------------------------------------------------------
\* The methods class KnowledgeRepository defines.
RepositoryMethods ==
    {"store", "retrieve", "update_feedback", "cleanup_expired", "get_statistics"}

ZeroPerformance ==
    [total_queries |-> 0, positive_feedback |-> 0, negative_feedback |-> 0, avg_score |-> 0]

\* model_performance = defaultdict(lambda: {...}): no model has an entry yet.
NoPerformance == [m \in {} |-> ZeroPerformance]

PerformanceOf(perf, m) == IF m \in DOMAIN perf THEN perf[m] ELSE ZeroPerformance

NoProcessed == [op |-> "none", ok |-> FALSE, error |-> "none"]

\* knowledge_item.get("metadata", {}).get("model", "通用医学模型")
DefaultFeedbackModel == "GeneralModel"

PositiveScore == 600000

\* A score of the store (x1000000) at the scale of the table (x10000).
AtConfScale(score) == score \div 100

\* total_queries += 1; positive or negative += 1; avg_score = positive / total
WithFeedback(perf, m, score) ==
    LET old == PerformanceOf(perf, m)
        pos == old.positive_feedback + IF score >= PositiveScore THEN 1 ELSE 0
        neg == old.negative_feedback + IF score >= PositiveScore THEN 0 ELSE 1
        new == [total_queries |-> old.total_queries + 1, positive_feedback |-> pos,
                negative_feedback |-> neg, avg_score |-> (pos * ConfScale) \div (pos + neg)]
    IN [x \in DOMAIN perf \cup {m} |-> IF x = m THEN new ELSE perf[x]]

IntentSupplied == {TRUE, FALSE}

\* FeedbackOptimizer.process_explicit_feedback.  update_feedback has
\* committed or rolled back when the table block starts; an exception in
\* that block is logged and False returned.
ProcessExplicitFeedbackCall(knowledge_id, user_id, score, intent_data, fault) ==
    /\ feedback_history' = Append(feedback_history,
                              [type |-> "explicit", knowledge_id |-> knowledge_id,
                               user_id |-> user_id, score |-> score])
    /\ UpdateFeedbackCall(knowledge_id, user_id, score, fault)
    /\ LET success == lastOp'.ok
       IN IF intent_data /\ success
          THEN IF "retrieve_by_id" \in RepositoryMethods
               THEN LET d == items'[knowledge_id].domain
                        i == items'[knowledge_id].intent_type
                        m == DefaultFeedbackModel
                    IN /\ IF KnownTriple(matrix, d, i, m)
                          THEN LET current == matrix[d][i][m]
                                   written == [matrix EXCEPT ![d][i][m] =
                                                 NewConfidence(current, AtConfScale(score))]
                               IN /\ matrix' = written
                                  /\ history' = RecordUpdate(history,
                                        UpdateRecord(d, i, m, current, written[d][i][m]))
                          ELSE UNCHANGED <<matrix, history>>
                       /\ model_performance' = WithFeedback(model_performance, m, score)
                       /\ processed' = [op |-> "process_explicit_feedback", ok |-> success,
                                        error |-> "none"]
               ELSE /\ processed' = [op |-> "process_explicit_feedback", ok |-> FALSE,
                                     error |-> "AttributeError"]
                    /\ UNCHANGED <<matrix, history, model_performance>>
          ELSE /\ processed' = [op |-> "process_explicit_feedback", ok |-> success,
                                error |-> "none"]
               /\ UNCHANGED <<matrix, history, model_performance>>
    /\ UNCHANGED <<model_call_count, stats, pc, req, best, path, submitted, tasks,
                   collected, results, invoked, response, stats0, nreq, inferring, tableVars>>

ProcessExplicitFeedback(knowledge_id, user_id, score, intent_data, fault) ==
    /\ Len(feedback_history) < MaxFeedbackHistory
    /\ RowCount(user_feedback, ItemIds) < MaxFeedbackRows
    /\ ProcessExplicitFeedbackCall(knowledge_id, user_id, score, intent_data, fault)

\* self.implicit_score_mapping, and 0.5 for a behavior it does not hold
ImplicitScore(behavior) ==
    CASE behavior = "click" -> 600000
      [] behavior = "copy" -> 700000
      [] behavior = "share" -> 800000
      [] behavior = "bookmark" -> 900000
      [] behavior = "follow_recommendation" -> 800000
      [] behavior = "ignore" -> 300000
      [] behavior = "quick_exit" -> 200000
      [] OTHER -> 500000

ImplicitWeightTenths == 3

\* implicit_score * self.feedback_weights["implicit"]
WeightedScore(implicit_score) == (implicit_score * ImplicitWeightTenths) \div 10

Behaviors == {"bookmark", "quick_exit", "scroll"}

\* FeedbackOptimizer.process_implicit_feedback
ProcessImplicitFeedback(knowledge_id, user_id, behavior, intent_data, fault) ==
    /\ Len(feedback_history) < MaxFeedbackHistory
    /\ RowCount(user_feedback, ItemIds) < MaxFeedbackRows
    /\ feedback_history' = Append(feedback_history,
                              [type |-> "implicit", knowledge_id |-> knowledge_id,
                               user_id |-> user_id, behavior |-> behavior,
                               implicit_score |-> ImplicitScore(behavior)])
    /\ UpdateFeedbackCall(knowledge_id, user_id, WeightedScore(ImplicitScore(behavior)), fault)
    /\ LET success == lastOp'.ok
           weighted_score == WeightedScore(ImplicitScore(behavior))
       IN IF intent_data /\ success
          THEN IF "retrieve_by_id" \in RepositoryMethods
               THEN LET d == items'[knowledge_id].domain
                        i == items'[knowledge_id].intent_type
                        m == DefaultFeedbackModel
                    IN /\ IF KnownTriple(matrix, d, i, m)
                          THEN LET current == matrix[d][i][m]
                                   written == [matrix EXCEPT ![d][i][m] =
                                                 NewConfidence(current,
                                                               AtConfScale(weighted_score))]
                               IN /\ matrix' = written
                                  /\ history' = RecordUpdate(history,
                                        UpdateRecord(d, i, m, current, written[d][i][m]))
                          ELSE UNCHANGED <<matrix, history>>
                       /\ processed' = [op |-> "process_implicit_feedback", ok |-> success,
                                        error |-> "none"]
               ELSE /\ processed' = [op |-> "process_implicit_feedback", ok |-> FALSE,
                                     error |-> "AttributeError"]
                    /\ UNCHANGED <<matrix, history>>
          ELSE /\ processed' = [op |-> "process_implicit_feedback", ok |-> success,
                                error |-> "none"]
               /\ UNCHANGED <<matrix, history>>
    /\ UNCHANGED <<model_performance, model_call_count, stats, pc, req, best, path,
                   submitted, tasks, collected, results, invoked, response, stats0, nreq, inferring,
                   tableVars>>

\* ------------------------------------------------------------------------
\* FeedbackOptimizer.optimize_model_weights after a run of ratings
\* ------------------------------------------------------------------------
RatedItem == 1

RatingScores == {0, 1000000}

\* One more rating of the same stored item by the same user, with
\* intent_data: process_explicit_feedback once more.
RateAgain(score) ==
    /\ Len(feedback_history) < MaxRatings
    /\ ProcessExplicitFeedbackCall(RatedItem, "u1", score, TRUE, "none")

\* FeedbackOptimizer.optimize_model_weights: with no model_performance entry
\* it returns False; past that test, self.matching_matrix.get_domains() is
\* the first statement, and class MatchingMatrix defines no get_domains
\* (nor get_intent_types, get_models, get_confidence): AttributeError, which
\* is logged, and False is returned.  The adjustment (for an entry with
\* total_queries >= 10) and save_matrix are not reached.
OptimizeModelWeights ==
    /\ processed' = [op |-> "optimize_model_weights", ok |-> FALSE,
                     error |-> IF DOMAIN model_performance = {} THEN "none"
                               ELSE "AttributeError"]
    /\ UNCHANGED <<routerVars, repoVars, tableVars, feedback_history, model_performance>>

NextOptimize ==
    \/ \E s \in RatingScores : RateAgain(s)
    \/ OptimizeModelWeights

NextFeedback ==
    \/ \E id \in ItemIds, u \in Users, s \in FeedbackScores, given \in IntentSupplied,
          f \in StorageFaults :
             ProcessExplicitFeedback(id, u, s, given, f)
    \/ \E id \in ItemIds, u \in Users, b \in Behaviors, given \in IntentSupplied,
          f \in StorageFaults :
             ProcessImplicitFeedback(id, u, b, given, f)

\* ------------------------------------------------------------------------
\* Specifications
\* ------------------------------------------------------------------------
vars == <<routerVars, repoVars, tableVars, optimizerVars>>

TableAtRest ==
    /\ tableCall = NoCall
    /\ updating = [t \in Threads |-> Idle]

OptimizerAtRest ==
    /\ feedback_history = <<>>
    /\ model_performance = NoPerformance
    /\ processed = NoProcessed

RepoAtRest ==
    /\ items = <<>>
    /\ keywords = {}
    /\ user_feedback = NoFeedback
    /\ issued = {}
    /\ now = 0
    /\ lastOp = NoOp

RouterAtRest ==
    /\ InitRouter
    /\ matrix = default_matrix

\* The dispatcher and its confidence table.
Init == InitRouter /\ RepoAtRest /\ TableAtRest /\ OptimizerAtRest

Next == NextRouter

Spec == Init /\ [][Next]_vars

\* The dispatcher when every step that can be taken is taken in the end:
\* route runs to its return, and every infer call returns or raises.
Progress ==
    \/ \E o \in Outcomes : DirectInfer(o)
    \/ \E o \in Outcomes : FallbackInfer(o)
    \/ CollabSubmit
    \/ \E m \in Models, o \in Outcomes : TaskComplete(m, o)
    \/ \E m \in Models : Collect(m)
    \/ CollabRespond

\* The tables its requests start from: the default one, one whose best
\* confidence is exactly 0.7 and one whose best confidence is below it.
InitLive ==
    /\ Init
    /\ matrix \in {default_matrix} \cup
          { WithRow(default_matrix, "Pharmacology", "DiagnosticConsult", r) :
              r \in {Row(7000, 6000, 5000), Row(6900, 6900, 5800)} }

\* Its requests: a configured and an unconfigured domain, two intents.
LiveDomains == {"Pharmacology", "TCM"}

LiveIntents == {"DiagnosticConsult", "MedicationQuery"}

NextLive ==
    \/ \E d \in LiveDomains, i \in LiveIntents, u \in Urgencies : Route(d, i, u)
    \/ \E d \in LiveDomains, i \in LiveIntents : CallCollaborative(d, i)
    \/ Progress

SpecLive == InitLive /\ [][NextLive]_vars /\ WF_vars(Progress)

\* The tiered store.
InitStore == RouterAtRest /\ InitRepo /\ TableAtRest /\ OptimizerAtRest

NextStore == NextRepo

SpecStore == InitStore /\ [][NextStore]_vars

\* The confidence table on its own, one call at a time.
InitTable == InitRouter /\ RepoAtRest /\ TableAtRest /\ OptimizerAtRest

SpecTable == InitTable /\ [][NextTable]_vars

\* The table updated, saved and constructed again from the file.
SpecSnapshot == InitTable /\ [][NextSnapshot]_vars

\* update_confidence running in several threads.
InitUpdates == RouterAtRest /\ RepoAtRest /\ TableAtRest /\ OptimizerAtRest

SpecUpdates == InitUpdates /\ [][NextUpdates]_vars

\* Adapters called from several threads.
SpecAdapters == InitUpdates /\ [][NextAdapters]_vars

\* The feedback loop: the optimizer on a store and a table.
InitFeedback == RouterAtRest /\ InitRepo /\ TableAtRest /\ OptimizerAtRest

SpecFeedback == InitFeedback /\ [][NextFeedback]_vars

\* Ratings of one item, and the bulk adjustment of the table.
SpecOptimize == InitFeedback /\ [][NextOptimize]_vars

\* ------------------------------------------------------------------------
\* Properties of the dispatcher (checked under Spec)
\* ------------------------------------------------------------------------
SucceededNow(m) == stats[m].success_count > stats0[m].success_count

FailedNow(m) == stats[m].failure_count > stats0[m].failure_count

NoSuccessNow == \A m \in Models : ~SucceededNow(m)

ScenarioA ==
    /\ matrix = default_matrix
    /\ req = [domain |-> "TCM", intent_type |-> "DiagnosticConsult",
              urgency |-> "Medium", entry |-> "route"]

\* C1: a request of route whose best confidence is >= 0.7 and whose selected
\* adapter succeeds took the Direct path, invoked the selected adapter and no
\* other, and left every other adapter's call counter as it was; in scenario A
\* (default table, TCM, DiagnosticConsult, Medium) the selection is
\* (ZhongJing, 0.95).
Thm_C1_DirectInvokesOnlySelected ==
    /\ (pc = "done" /\ req.entry = "route" /\ best[2] >= 7000 /\ SucceededNow(best[1]))
          => /\ path = "direct"
             /\ invoked = <<best[1]>>
             /\ response = Text(best[1])
             /\ stats[best[1]].call_count = stats0[best[1]].call_count + 1
             /\ \A m \in Models \ {best[1]} : stats[m] = stats0[m]
    /\ ScenarioA => best = <<"ZhongJing", 9500>>

Witness_C1 ==
    /\ ScenarioA
    /\ pc = "done"
    /\ path = "direct"
    /\ invoked = <<"ZhongJing">>
    /\ response = Text("ZhongJing")

\* C2: whatever the adapters' outcomes, on either path, the request ends
\* with a text as its response and no exception leaves it; when no adapter
\* succeeded the response is the fixed apology.
Thm_C2_AlwaysText ==
    pc = "done" =>
        /\ response # Raised
        /\ response # NoResponse
        /\ \/ response = Apology
           \/ \E m \in Models : response = Text(m)
           \/ \E a, b \in Models : response = WithSupplement(a, b)
        /\ NoSuccessNow => response = Apology
        /\ response = Apology => NoSuccessNow

Witness_C2 ==
    /\ pc = "done"
    /\ path = "direct"
    /\ Len(invoked) = 2
    /\ FailedNow(invoked[1])
    /\ FailedNow(invoked[2])
    /\ response = Apology

\* C3: on the Direct path a failure of the selected adapter is followed by
\* one call of the first registered adapter other than the failed one
\* (ZhongJing, unless ZhongJing failed: then TCMChat), whatever the table
\* says; its result is the response, or the apology if it fails too; a Direct
\* request never invokes more than two adapters.
FirstRegisteredOther(m) == IF m = "ZhongJing" THEN "TCMChat" ELSE "ZhongJing"

Thm_C3_SingleFallback ==
    /\ path = "direct" => Len(invoked) <= 2
    /\ pc = "fallback" => invoked = <<best[1]>> /\ FailedNow(best[1])
    /\ (pc = "done" /\ path = "direct" /\ FailedNow(best[1]))
          => /\ invoked = <<best[1], FirstRegisteredOther(best[1])>>
             /\ response = IF SucceededNow(invoked[2]) THEN Text(invoked[2]) ELSE Apology

Witness_C3 ==
    /\ pc = "done"
    /\ matrix = default_matrix
    /\ req.domain = "Pharmacology"
    /\ req.intent_type = "DiagnosticConsult"
    /\ matrix["Pharmacology"]["DiagnosticConsult"]["TCMChat"]
          > matrix["Pharmacology"]["DiagnosticConsult"]["ZhongJing"]
    /\ invoked = <<"GeneralModel", "ZhongJing">>
    /\ response = Apology

\* C4 (as claimed): when every confidence of the request's (domain, intent)
\* is below 0.7, route takes the Collaborative path and exactly two adapters,
\* the two best, are invoked.
AllBelowDirect ==
    \A m \in Models : ResolvedRow(matrix, req.domain, req.intent_type)[m] < 7000

Claim_C4_LowConfidenceInvokesTopTwo ==
    (pc = "done" /\ req.entry = "route" /\ AllBelowDirect)
        => /\ path = "collaborative"
           /\ Len(submitted) = 2
           /\ SeqToSet(invoked) = SeqToSet(submitted)

\* C5: on the Collaborative path one task is submitted for each qualifying
\* model and for no other; the response is formed only when every submitted
\* task has succeeded or failed and has been collected; a task that failed
\* takes no sibling with it: results holds exactly the models whose task
\* succeeded, each once.
NoDuplicates(s) == \A a, b \in 1..Len(s) : a # b => s[a] # s[b]

Thm_C5_AllTasksJoined ==
    (path = "collaborative" /\ pc \in {"waiting", "done"})
        => /\ \A m \in Models :
                 tasks[m] # "none" <=>
                    /\ ResolvedRow(matrix, req.domain, req.intent_type)[m] >= 8000
                    /\ m \in SeqToSet(submitted)
           /\ Len(submitted) <= 2
           /\ NoDuplicates(submitted)
           /\ NoDuplicates(results)
           /\ SeqToSet(results) = {m \in collected : tasks[m] = "succeeded"}
           /\ pc = "done" =>
                 /\ \A m \in SeqToSet(submitted) : tasks[m] \in {"succeeded", "failed"}
                 /\ collected = SeqToSet(submitted)
                 /\ SeqToSet(invoked) = SeqToSet(submitted)
                 /\ SeqToSet(results) = {m \in Models : tasks[m] = "succeeded"}

Witness_C5 ==
    /\ pc = "done"
    /\ path = "collaborative"
    /\ Len(submitted) = 2
    /\ Len(invoked) = 2
    /\ tasks[invoked[1]] = "failed"
    /\ tasks[invoked[2]] = "succeeded"
    /\ results = <<invoked[2]>>

\* C6 (as claimed): the merge takes rule 1, 2, 3 in this order, and rule 1
\* appends the TCMChat note under the test rule 3 uses: the intent contains
\* "Medication".
Claim_C6_MergeRules ==
    (pc = "done" /\ path = "collaborative" /\ results # <<>>)
        => LET has(m) == m \in SeqToSet(results)
               medication == ContainsWord(req.intent_type, "Medication")
           IN IF req.domain = "TCM" /\ has("ZhongJing")
              THEN response = IF medication /\ has("TCMChat")
                              THEN WithSupplement("ZhongJing", "TCMChat")
                              ELSE Text("ZhongJing")
              ELSE IF req.domain = "WesternMed" /\ has("GeneralModel")
                   THEN response = Text("GeneralModel")
                   ELSE (medication /\ has("TCMChat")) => response = Text("TCMChat")

\* C7 (as claimed): the merged response is the same for every order in which
\* the successful tasks could have been collected.
Reorderings(s) ==
    { r \in [1..Len(s) -> SeqToSet(s)] : \A m \in SeqToSet(s) : \E k \in 1..Len(s) : r[k] = m }

Claim_C7_MergeDeterministic ==
    (pc = "done" /\ path = "collaborative" /\ results # <<>>)
        => \A r \in Reorderings(results) :
              MergeResults(r, req.domain, req.intent_type) = response

\* C7 (amended): the merged response is the same for every collection order
\* when rule 1, 2 or 3 applies or a single task succeeded; otherwise it is
\* the result of the task collected first.
RuleApplies ==
    LET has(m) == m \in SeqToSet(results)
    IN \/ req.domain = "TCM" /\ has("ZhongJing")
       \/ req.domain = "WesternMed" /\ has("GeneralModel")
       \/ ContainsWord(req.intent_type, "Medication") /\ has("TCMChat")

Thm_C7_MergeOrderDependence ==
    (pc = "done" /\ path = "collaborative" /\ results # <<>>)
        => /\ (RuleApplies \/ Len(results) = 1)
                => \A r \in Reorderings(results) :
                      MergeResults(r, req.domain, req.intent_type) = response
           /\ ~RuleApplies => response = Text(results[1])

Witness_C7 ==
    /\ pc = "done"
    /\ path = "collaborative"
    /\ Len(results) = 2
    /\ ~RuleApplies
    /\ results[1] = submitted[2]
    /\ response = Text(submitted[2])

\* ------------------------------------------------------------------------
\* Properties of the knowledge repository (checked under SpecStore)
\* ------------------------------------------------------------------------
\* The tier of a score in millionths, as the specification words it.
TierOfTenfold(tenfold) ==
    IF tenfold >= 8500000 THEN "core"
    ELSE IF tenfold >= 7000000 THEN "extended"
    ELSE "temporary"

\* Ten times 0.6 * quality_score + 0.4 * feedback_score.
TenfoldCombined(row) == row.quality_score * 6 + row.feedback_score * 4

DaysOf(tier) ==
    IF tier = "core" THEN 180 ELSE IF tier = "extended" THEN 90 ELSE 30

HasFeedback(id) == user_feedback[id] # <<>>

Claim_C9_StoreAssignsTierAndExpiry ==
    (lastOp.op = "store" /\ lastOp.error # "OperationalError") =>
        /\ lastOp.ok
        /\ lastOp.id \in DOMAIN items
        /\ items[lastOp.id].tier = TierOfTenfold(items[lastOp.id].quality_score * 10)
        /\ items[lastOp.id].expires_at
              = items[lastOp.id].created_at + DaysOf(items[lastOp.id].tier)

\* C10: a step of update_feedback that changes an item's tier sets its
\* expires_at to the time of the call plus the new tier's days (180, 90, 30),
\* whatever remained of the old lifetime; a step of update_feedback that
\* leaves the tier as it was leaves expires_at as it was.
FeedbackApplied(id) ==
    /\ id \in DOMAIN items
    /\ id \in DOMAIN items'
    /\ Len(user_feedback'[id]) = Len(user_feedback[id]) + 1

LastScore(id) == user_feedback'[id][Len(user_feedback'[id])].score

Claim_C11_FeedbackBlend ==
    [][\A id \in ItemIds :
          FeedbackApplied(id) =>
             items'[id].feedback_score * 10
                = IF user_feedback[id] = <<>>
                  THEN LastScore(id) * 10
                  ELSE items[id].feedback_score * 7 + LastScore(id) * 3]_vars

\* C12: a call of update_feedback with an id no item has, which the storage
\* layer does not fail, returns False without raising and changes no table:
\* no feedback row is left for the id and no item is modified.
Thm_C12_UnknownIdChangesNothing ==
    [][(/\ lastOp'.op = "update_feedback"
        /\ lastOp'.error = "none"
        /\ lastOp'.id \notin DOMAIN items)
          => /\ ~lastOp'.ok
             /\ ~lastOp'.raised
             /\ items' = items
             /\ user_feedback' = user_feedback
             /\ keywords' = keywords]_vars

Witness_C12 ==
    /\ lastOp.op = "update_feedback"
    /\ lastOp.error = "none"
    /\ ~lastOp.ok
    /\ lastOp.id \notin DOMAIN items
    /\ user_feedback[lastOp.id] = <<>>
    /\ items # <<>>

Claim_C14_ReferentialIntegrity ==
    /\ \A kw \in keywords : kw[2] \in DOMAIN items
    /\ \A id \in ItemIds : user_feedback[id] # <<>> => id \in DOMAIN items

\* C15 (as claimed): a call of store that the storage layer does not fail
\* succeeds, and a retrieve that follows it at once (the item cannot have
\* expired) with the same domain and intent returns the stored item.
Claim_C15_StoreThenRetrieve ==
    [][(/\ lastOp.op = "store"
        /\ lastOp.error # "OperationalError"
        /\ lastOp'.op = "retrieve")
          => /\ lastOp.ok
             /\ lastOp.id \in SeqToSet(lastOp'.returned)]_vars

\* C19: store is all or nothing: a call that fails (at the insert, at the
\* keyword extraction, at a keyword insert or at the commit) leaves the items
\* and the keyword rows as they were; a call that succeeds leaves the new item
\* together with its keyword rows, at most 20, and nothing else changed.
KeywordsOf(kws, id) == {kw \in kws : kw[2] = id}

Claim_C20_StorageErrorsPropagate ==
    lastOp.error = "OperationalError" => lastOp.raised


\* ------------------------------------------------------------------------
\* Properties of the confidence table (checked under SpecTable)
\* ------------------------------------------------------------------------
Min(a, b) == IF a < b THEN a ELSE b

Max(a, b) == IF a < b THEN b ELSE a

Last(h) == h[Len(h)]

IsPrefix(h1, h2) == Len(h1) <= Len(h2) /\ SubSeq(h2, 1, Len(h1)) = h1

\* The keys a call on (d, i) is specified to read.
GeneralIfAbsent(d) == IF d \in DOMAIN matrix THEN d ELSE "General"

DiagnosticIfAbsent(d, i) ==
    IF i \in DOMAIN matrix[GeneralIfAbsent(d)] THEN i ELSE "DiagnosticConsult"

\* The stored row the last call is specified to read.
ReadRow(c) == matrix[GeneralIfAbsent(c.domain)][DiagnosticIfAbsent(c.domain, c.intent_type)]

\* The value get_best_model is specified to compare: min(1.0, 1.2 * stored)
\* for GeneralModel under High urgency, the stored value otherwise.
Effective(c, m) ==
    IF c.urgency = "High" /\ m = "GeneralModel"
    THEN Min(10000, (12 * ReadRow(c)[m]) \div 10)
    ELSE ReadRow(c)[m]

SameKeys(mx1, mx2) ==
    /\ DOMAIN mx1 = DOMAIN mx2
    /\ \A d \in DOMAIN mx1 :
          /\ DOMAIN mx1[d] = DOMAIN mx2[d]
          /\ \A i \in DOMAIN mx1[d] : DOMAIN mx1[d][i] = DOMAIN mx2[d][i]

PositionOf(m) == CHOOSE k \in 1..Len(ModelOrder) : ModelOrder[k] = m

\* C21: get_best_model and get_collaborative_models called with a domain
\* absent from the table answer as for "General", and with an intent absent
\* under the resolved domain as for "DiagnosticConsult": the answer and the
\* record logged are those of the call on the resolved keys; the table's
\* domains, intents and models are the ones it was constructed with.
Thm_C21_AbsentKeysFallBack ==
    /\ SameKeys(matrix, default_matrix)
    /\ tableCall.op = "get_best_model" =>
          /\ tableCall.result =
                GetBestModel(matrix, GeneralIfAbsent(tableCall.domain),
                             DiagnosticIfAbsent(tableCall.domain, tableCall.intent_type),
                             tableCall.urgency)
          /\ Last(history).domain = GeneralIfAbsent(tableCall.domain)
          /\ Last(history).intent_type =
                DiagnosticIfAbsent(tableCall.domain, tableCall.intent_type)
    /\ tableCall.op = "get_collaborative_models" =>
          /\ [k \in 1..Len(tableCall.result) |-> tableCall.result[k][1]] =
                GetCollaborativeModels(matrix, GeneralIfAbsent(tableCall.domain),
                                       DiagnosticIfAbsent(tableCall.domain, tableCall.intent_type),
                                       tableCall.threshold, tableCall.max_models)
          /\ \A k \in 1..Len(tableCall.result) :
                tableCall.result[k][2] = ReadRow(tableCall)[tableCall.result[k][1]]

Witness_C21 ==
    /\ tableCall.op = "get_best_model"
    /\ tableCall.domain = "Dermatology"
    /\ tableCall.intent_type = "MedicationAdvice"
    /\ tableCall.urgency = "Medium"
    /\ "Dermatology" \notin DOMAIN matrix
    /\ tableCall.result = <<"GeneralModel", 8500>>
    /\ Last(history).domain = "General"
    /\ Last(history).intent_type = "DiagnosticConsult"

\* C22: a High-urgency get_best_model compares and returns GeneralModel at
\* min(1.0, 1.2 * stored value), and the step leaves the table exactly as it
\* was, so any run of such calls leaves it as it was.
Thm_C22_BoostLeavesTable ==
    [][ (tableCall'.op = "get_best_model" /\ history' # history)
          => /\ matrix' = matrix
             /\ tableCall'.urgency = "High" =>
                   /\ tableCall'.result[2] = Effective(tableCall', tableCall'.result[1])
                   /\ \A m \in Models : Effective(tableCall', m) <= tableCall'.result[2]
      ]_vars

Witness_C22 ==
    /\ tableCall.op = "get_best_model"
    /\ tableCall.urgency = "High"
    /\ tableCall.domain = "Pharmacology"
    /\ matrix["Pharmacology"]["DiagnosticConsult"] = Row(6900, 6900, 5800)
    /\ tableCall.result = <<"GeneralModel", 6960>>
    /\ Len(history) = 2
    /\ history[1].urgency = "High"

\* C23: the confidence get_best_model returns never exceeds 1.0, whatever
\* the urgency, on a table whose stored values are all within [0, 1].
Thm_C23_ReturnedAtMostOne ==
    tableCall.op = "get_best_model" =>
        /\ \A m \in Models : ReadRow(tableCall)[m] \in 0..10000
        /\ tableCall.result[2] <= 10000

Witness_C23 ==
    /\ tableCall.op = "get_best_model"
    /\ tableCall.urgency = "High"
    /\ ReadRow(tableCall)["GeneralModel"] = 8500
    /\ tableCall.result = <<"GeneralModel", 10000>>

\* C24: get_best_model returns a model whose (possibly boosted) confidence
\* is the greatest among the models of the resolved domain and intent, and
\* of several greatest ones the first in the table's insertion order.
Thm_C24_FirstMaximum ==
    tableCall.op = "get_best_model" =>
        LET m == tableCall.result[1]
        IN /\ m \in Models
           /\ tableCall.result[2] = Effective(tableCall, m)
           /\ \A x \in Models : Effective(tableCall, x) <= Effective(tableCall, m)
           /\ \A k \in 1..(PositionOf(m) - 1) :
                 Effective(tableCall, ModelOrder[k]) < Effective(tableCall, m)

Witness_C24 ==
    /\ tableCall.op = "get_best_model"
    /\ tableCall.urgency = "Medium"
    /\ ReadRow(tableCall) = Row(6900, 6900, 5800)
    /\ tableCall.result = <<"ZhongJing", 6900>>


\* C25: the history is append-only: every step leaves the records already
\* in it where they were and as they were, and a get_best_model step adds
\* exactly one record, a selection record of the model it returned.
Thm_C25_HistoryAppendOnly ==
    [][ /\ IsPrefix(history, history')
        /\ (tableCall'.op = "get_best_model" /\ history' # history) =>
              /\ Len(history') = Len(history) + 1
              /\ Last(history').action = "selection"
              /\ Last(history').model = tableCall'.result[1]
              /\ Last(history').confidence = tableCall'.result[2]
              /\ Last(history').urgency = tableCall'.urgency
      ]_vars

Witness_C25 ==
    /\ Len(history) = 2
    /\ history[1].action = "update"
    /\ history[2].action = "selection"
    /\ tableCall.op = "get_best_model"

\* C26: get_collaborative_models returns at most max_models entries (a
\* count, max_models >= 0), each with its stored confidence, which is at
\* least the threshold, in non-increasing order of confidence; no qualifying
\* model left out has a higher confidence than one returned; the history
\* ends with one selection record per returned model, in order, and every
\* model's call count is the number of selection records naming it.
SelectionsOf(m) ==
    Cardinality({k \in 1..Len(history) :
                    history[k].action = "selection" /\ history[k].model = m})

Thm_C26_CollaborativeModels ==
    /\ \A m \in Models : model_call_count[m] = SelectionsOf(m)
    /\ tableCall.op = "get_collaborative_models" =>
          LET r == tableCall.result
              n == Len(r)
              row == ReadRow(tableCall)
              returned == {r[k][1] : k \in 1..n}
          IN /\ n <= tableCall.max_models
             /\ \A j, k \in 1..n : j # k => r[j][1] # r[k][1]
             /\ \A k \in 1..n : /\ r[k][1] \in Models
                                /\ r[k][2] = row[r[k][1]]
                                /\ r[k][2] >= tableCall.threshold
             /\ \A k \in 1..(n - 1) : r[k][2] >= r[k + 1][2]
             /\ \A m \in Models \ returned :
                   row[m] >= tableCall.threshold => \A k \in 1..n : row[m] <= r[k][2]
             /\ Len(history) >= n
             /\ \A k \in 1..n :
                   LET rec == history[Len(history) - n + k]
                   IN /\ rec.action = "selection"
                      /\ rec.model = r[k][1]
                      /\ rec.confidence = r[k][2]
                      /\ rec.urgency = "Collaborative"

Witness_C26 ==
    /\ tableCall.op = "get_collaborative_models"
    /\ tableCall.threshold = 6900
    /\ tableCall.max_models = 2
    /\ ReadRow(tableCall) = Row(7500, 8000, 8500)
    /\ tableCall.result = << <<"GeneralModel", 8500>>, <<"TCMChat", 8000>> >>
    /\ model_call_count = [m \in Models |-> IF m = "ZhongJing" THEN 0 ELSE 1]

\* C27: update_confidence on a triple that is not in the table returns
\* False and the step changes no confidence, no key and no history record;
\* on a triple in the table it returns True, stores 0.9 * old + 0.1 *
\* feedback for that triple and leaves every other confidence as it was.
Thm_C27_UpdateConfidence ==
    [][ (tableCall'.op = "update_confidence"
           /\ <<tableCall, history, matrix>>' # <<tableCall, history, matrix>>)
        => LET d == tableCall'.domain
               i == tableCall'.intent_type
               m == tableCall'.model
           IN IF d \in DOMAIN matrix /\ i \in DOMAIN matrix[d] /\ m \in DOMAIN matrix[d][i]
              THEN /\ tableCall'.ok
                   /\ SameKeys(matrix', matrix)
                   /\ 10 * matrix'[d][i][m] = 9 * matrix[d][i][m] + tableCall'.feedback_score
                   /\ \A d2 \in DOMAIN matrix : \A i2 \in DOMAIN matrix[d2] :
                         \A m2 \in DOMAIN matrix[d2][i2] :
                            <<d2, i2, m2>> # <<d, i, m>> =>
                               matrix'[d2][i2][m2] = matrix[d2][i2][m2]
              ELSE /\ ~tableCall'.ok
                   /\ matrix' = matrix
                   /\ history' = history
      ]_vars

Witness_C27 ==
    /\ tableCall.op = "update_confidence"
    /\ tableCall.ok
    /\ tableCall.feedback_score = 10000
    /\ matrix["General"]["DiagnosticConsult"] = Row(8200, 7800, 8500)
    /\ Len(history) = 1

Witness_C27_Unknown ==
    /\ tableCall.op = "update_confidence"
    /\ ~tableCall.ok
    /\ tableCall.model = "NoSuchModel"
    /\ history = <<>>

\* C28: the value update_confidence stores lies between the old value and
\* the feedback score, both within [0, 1]; so every confidence of the table
\* stays within [0, 1].
Thm_C28_ConfidenceStaysInRange ==
    /\ \A d \in DOMAIN matrix : \A i \in DOMAIN matrix[d] : \A m \in DOMAIN matrix[d][i] :
          matrix[d][i][m] \in 0..10000
    /\ (tableCall.op = "update_confidence" /\ tableCall.ok) =>
          LET rec == Last(history)
          IN /\ rec.action = "update"
             /\ rec.new_confidence = matrix[rec.domain][rec.intent_type][rec.model]
             /\ rec.old_confidence \in 0..10000
             /\ tableCall.feedback_score \in 0..10000
             /\ rec.new_confidence >= Min(rec.old_confidence, tableCall.feedback_score)
             /\ rec.new_confidence <= Max(rec.old_confidence, tableCall.feedback_score)

Witness_C28 ==
    /\ tableCall.op = "update_confidence"
    /\ tableCall.ok
    /\ tableCall.feedback_score = 0
    /\ Len(history) = 2
    /\ history[1].action = "update"
    /\ Last(history).old_confidence = 8200
    /\ Last(history).new_confidence = 7380


\* ------------------------------------------------------------------------
\* Properties of concurrent updates (checked under SpecUpdates)
\* ------------------------------------------------------------------------
\* The values that applying the updates of the threads S one after another,
\* in any order, can leave behind when the value before them is v.
RECURSIVE OneAfterAnother(_, _)
OneAfterAnother(v, S) ==
    IF S = {} THEN {v}
    ELSE UNION { OneAfterAnother((9 * v + updating[t].feedback_score) \div 10, S \ {t}) :
                 t \in S }

CallsOn(d, i, m) ==
    {t \in Threads : /\ updating[t].pc = "done"
                     /\ updating[t].ok
                     /\ <<updating[t].domain, updating[t].intent_type, updating[t].model>>
                           = <<d, i, m>>}

UpdateRecordsOn(d, i, m) ==
    {k \in 1..Len(history) :
        /\ history[k].action = "update"
        /\ <<history[k].domain, history[k].intent_type, history[k].model>> = <<d, i, m>>}

\* C29: writes to the table are serialized: when every concurrent
\* update_confidence call has returned, the confidence of each triple is a
\* value that applying the calls on it one after another, in some order,
\* leaves behind, and the history holds one update record per call.
Claim_C29_UpdatesSerialized ==
    (\A t \in Threads : updating[t].pc = "done") =>
        \A d \in DOMAIN matrix : \A i \in DOMAIN matrix[d] : \A m \in DOMAIN matrix[d][i] :
            /\ matrix[d][i][m] \in OneAfterAnother(default_matrix[d][i][m], CallsOn(d, i, m))
            /\ Cardinality(UpdateRecordsOn(d, i, m)) = Cardinality(CallsOn(d, i, m))


\* ------------------------------------------------------------------------
\* Properties of the feedback loop (checked under SpecFeedback)
\* ------------------------------------------------------------------------
\* C30: a process_explicit_feedback call whose update_feedback succeeds, on
\* an item whose (domain, intent, model) triple is in the table, leaves the
\* triple's confidence at 0.9 * old + 0.1 * score, the model's total_queries
\* one higher, and positive_feedback one higher if score >= 0.6,
\* negative_feedback one higher otherwise, with or without intent_data.
Claim_C30_ExplicitFeedbackReachesTable ==
    [][ (/\ feedback_history' # feedback_history
         /\ Last(feedback_history').type = "explicit"
         /\ lastOp'.op = "update_feedback"
         /\ lastOp'.ok)
        => LET id == lastOp'.id
               d == items[id].domain
               i == items[id].intent_type
               m == "GeneralModel"
               score == Last(feedback_history').score
               old == PerformanceOf(model_performance, m)
               new == PerformanceOf(model_performance', m)
           IN (d \in DOMAIN matrix /\ i \in DOMAIN matrix[d] /\ m \in DOMAIN matrix[d][i])
                 => /\ 10 * matrix'[d][i][m] = 9 * matrix[d][i][m] + score \div 100
                    /\ new.total_queries = old.total_queries + 1
                    /\ IF score >= 600000
                       THEN new.positive_feedback = old.positive_feedback + 1
                       ELSE new.negative_feedback = old.negative_feedback + 1
      ]_vars


\* The base score the specification gives each implicit behavior.
BaseScoreOf(behavior) ==
    CASE behavior = "bookmark" -> 900000
      [] behavior = "quick_exit" -> 200000
      [] OTHER -> 500000

LastFeedbackRow(id) == user_feedback[id][Len(user_feedback[id])]

\* The part of C31 about the store: the score of the feedback row a
\* successful process_implicit_feedback commits is 0.3 * base score.
ImplicitScoreReachesStore ==
    [][ (/\ feedback_history' # feedback_history
         /\ Last(feedback_history').type = "implicit"
         /\ lastOp'.ok)
        => /\ Len(user_feedback'[lastOp'.id]) = Len(user_feedback[lastOp'.id]) + 1
           /\ 10 * user_feedback'[lastOp'.id][Len(user_feedback'[lastOp'.id])].score
                 = 3 * BaseScoreOf(Last(feedback_history').behavior)
      ]_vars

\* C31: process_implicit_feedback maps the behavior to its base score (0.5
\* for an unrecognized one, without failing), multiplies it by 0.3 and
\* passes that value both to update_feedback and to update_confidence: the
\* feedback row holds it and the table's confidence of the item's triple
\* becomes 0.9 * old + 0.1 * that value.
Claim_C31_ImplicitScoreForwarded ==
    [][ (/\ feedback_history' # feedback_history
         /\ Last(feedback_history').type = "implicit"
         /\ lastOp'.ok)
        => LET id == lastOp'.id
               d == items[id].domain
               i == items[id].intent_type
               weighted == (3 * BaseScoreOf(Last(feedback_history').behavior)) \div 10
           IN /\ user_feedback'[id][Len(user_feedback'[id])].score = weighted
              /\ processed'.ok
              /\ 10 * matrix'[d][i]["GeneralModel"]
                    = 9 * matrix[d][i]["GeneralModel"] + weighted \div 100
      ]_vars

\* C37: process_explicit_feedback and process_implicit_feedback return True
\* exactly when the update_feedback they forward to succeeded, with or
\* without intent_data.
Claim_C37_ReturnsWhatStoreReturned ==
    processed.op # "none" => (processed.ok <=> lastOp.ok)


\* ------------------------------------------------------------------------
\* Properties of the bulk adjustment (checked under SpecOptimize)
\* ------------------------------------------------------------------------
RatingsOf(id) == Len(user_feedback[id])

PositiveRatingsOf(id) ==
    Cardinality({k \in 1..Len(user_feedback[id]) : user_feedback[id][k].score >= 600000})

\* C32: optimize_model_weights sets the confidence of every triple with at
\* least 10 accumulated queries to 0.8 * current + 0.2 * positive ratio
\* (not to the 0.9/0.1 blend of it) and leaves every other confidence as it
\* was.  The queries of (TCM, DiagnosticConsult, GeneralModel) are the
\* successful ratings of the stored item of that triple.
Claim_C32_BulkAdjustment ==
    [][ (processed'.op = "optimize_model_weights" /\ processed.op # "optimize_model_weights")
        => LET n == RatingsOf(1)
               pos == PositiveRatingsOf(1)
               current == matrix["TCM"]["DiagnosticConsult"]["GeneralModel"]
               new == matrix'["TCM"]["DiagnosticConsult"]["GeneralModel"]
           IN /\ n >= 10 => 10 * n * new = 8 * n * current + 2 * pos * 10000
              /\ n < 10 => new = current
              /\ \A d \in DOMAIN matrix : \A i \in DOMAIN matrix[d] : \A m \in DOMAIN matrix[d][i] :
                    <<d, i, m>> # <<"TCM", "DiagnosticConsult", "GeneralModel">>
                       => matrix'[d][i][m] = matrix[d][i][m]
      ]_vars


Thm_C34_UpdateFeedbackFrame ==
    [][ /\ \A id \in DOMAIN items \cap DOMAIN items' :
              items'[id].quality_score = items[id].quality_score
        /\ (lastOp'.op = "update_feedback" /\ lastOp'.ok
              /\ user_feedback' # user_feedback) =>
              LET id == lastOp'.id
              IN /\ DOMAIN items' = DOMAIN items
                 /\ Len(user_feedback'[id]) = Len(user_feedback[id]) + 1
                 /\ SubSeq(user_feedback'[id], 1, Len(user_feedback[id])) = user_feedback[id]
                 /\ \A other \in ItemIds \ {id} : user_feedback'[other] = user_feedback[other]
                 /\ \A other \in DOMAIN items \ {id} : items'[other] = items[other]
                 /\ items'[id].query = items[id].query
                 /\ items'[id].domain = items[id].domain
                 /\ items'[id].intent_type = items[id].intent_type
                 /\ items'[id].usage_count = items[id].usage_count
                 /\ items'[id].created_at = items[id].created_at
                 /\ items'[id].tier = items[id].tier
                       => items'[id].expires_at = items[id].expires_at
                 /\ keywords' = keywords
      ]_vars

Witness_C34 ==
    \E id \in DOMAIN items :
        /\ lastOp.op = "update_feedback"
        /\ lastOp.ok
        /\ lastOp.id = id
        /\ Len(user_feedback[id]) = 2
        /\ Cardinality(DOMAIN items) = 2
        /\ items[id].quality_score = 850000
        /\ items[id].tier = "extended"

Thm_C35_RouteCollaborativeIsEmpty ==
    (req.entry = "route" /\ path = "collaborative") =>
        /\ best[2] < 7000
        /\ \A m \in Models : ResolvedRow(matrix, req.domain, req.intent_type)[m] < 8000
        /\ invoked = <<>>
        /\ stats = stats0
        /\ \A m \in Models : tasks[m] = "none"
        /\ pc \in {"waiting", "done"} => submitted = <<>> /\ results = <<>>
        /\ pc = "done" => response = Apology

Witness_C35 ==
    /\ req.entry = "route"
    /\ req.urgency = "High"
    /\ path = "collaborative"
    /\ pc = "done"
    /\ best = <<"GeneralModel", 6960>>
    /\ response = Apology

\* C36: a request of route goes from selecting the best model to exactly one
\* of the Direct and the Collaborative path, chosen by comparing the best
\* confidence (boost included) with 0.7 and by nothing else, and from there
\* to its response; if every step that is enabled is eventually taken, in
\* particular every infer call returns or raises, every request reaches its
\* response.
InRequest == pc \in {"direct", "fallback", "collab", "waiting"}

RoutePathByConfidence ==
    (req.entry = "route" /\ pc # "idle") =>
        /\ best = BestOf(Boosted(ResolvedRow(matrix, req.domain, req.intent_type), req.urgency))
        /\ path = IF best[2] >= 7000 THEN "direct" ELSE "collaborative"
        /\ pc \in {"direct", "fallback"} => path = "direct"
        /\ pc \in {"collab", "waiting"} => path = "collaborative"
        /\ path = "direct" => submitted = <<>> /\ \A m \in Models : tasks[m] = "none"
        /\ path = "collaborative" => invoked = <<>>
        /\ pc = "done" <=> response # NoResponse

RouteStep ==
    /\ pc \in {"idle", "done"} => pc' \in {pc, "direct", "collab"}
    /\ pc = "direct" => pc' \in {"direct", "fallback", "done"}
    /\ pc = "fallback" => pc' \in {"fallback", "done"}
    /\ pc = "collab" => pc' \in {"collab", "waiting"}
    /\ pc = "waiting" => pc' \in {"waiting", "done"}
    /\ InRequest => path' = path /\ best' = best /\ req' = req

Thm_C36_RequestReachesRespond ==
    /\ []RoutePathByConfidence
    /\ [][RouteStep]_vars
    /\ (InRequest ~> pc = "done")

Witness_C36 ==
    /\ req.entry = "route"
    /\ pc = "done"
    /\ best[2] = 7000
    /\ path = "direct"
    /\ Len(invoked) = 2


\* C39 (as claimed): whenever no infer call is in progress, every adapter's
\* call_count equals the number of infer calls made on it and equals
\* success_count + failure_count, also when several threads call the same
\* adapter at once.
InferCallsOn(m) ==
    Cardinality({t \in Threads : inferring[t].pc = "done" /\ inferring[t].model = m})

NoInferInProgress == \A t \in Threads : inferring[t].pc \in {"idle", "done"}

Claim_C39_CountersConsistent ==
    NoInferInProgress =>
        \A m \in Models :
            /\ stats[m].call_count = InferCallsOn(m)
            /\ stats[m].call_count = stats[m].success_count + stats[m].failure_count

====
